---- MODULE Spec2Model ----
(***************************************************************************)
(* Model of the electrolyzer dashboard's control core:                     *)
(*   - HENMPC, the evolutionary optimizer        (src/henmpc-controller.js)*)
(*   - MPCController.compareVariants, the strategy comparator              *)
(*                                                (src/mpc-controller.js)  *)
(*   - HenMPC.computeAndPublishMPC / scheduleAndRun and                    *)
(*     MPC.runWithWarmStart, the warm start and the local refinement       *)
(*                         (src/unnamed/part_001, src/mpc-controller.js)   *)
(*                                                                         *)
(* Numbers.  JavaScript numbers are modelled as tagged records: a finite   *)
(* number in fixed point (thousandths), NaN, +/-Infinity, and the value    *)
(* undefined.  The arithmetic and the comparisons follow ECMAScript:       *)
(* undefined converts to NaN, NaN poisons arithmetic, and every            *)
(* comparison with NaN is false.                                           *)
(***************************************************************************)
EXTENDS Integers, Sequences, FiniteSets, TLC

VARIABLES
    populationSize,      \* HENMPC.populationSize
    generation,          \* HENMPC.generation
    population,          \* HENMPC.population, a sequence of candidate solutions
    bestSolution,        \* HENMPC.bestSolution, Null or a candidate solution
    performanceHistory,  \* HENMPC.performanceHistory
    weights,             \* HENMPC.weights
    cache,               \* KenyaRealData.cache 'currentData', NoData or a scenario
    henmpcCall,          \* outcome of the last optimize / generateControlDecision call
    performanceMetrics,  \* MPCController.performanceMetrics
    compareCall,         \* outcome of the last compareVariants call
    warmModel,           \* HenMPC.warmModel is loaded
    surrogateModel,      \* MPC.surrogateModel is loaded
    requests,            \* the decision requests issued so far, in call order
    published,           \* messages handed to mqttClient.publish, in order
    applied,             \* the last application of a function to given arguments
    populationId,        \* the objects population holds, one identity per slot
    bestSolutionId,      \* the object bestSolution refers to, 0 for null
    nextId,              \* the identity the next object literal or spread gets
    phase,               \* the statement of optimize that runs next
    currentVariant,      \* MPCController.currentVariant
    variantCall,         \* outcome of the last selectVariant / getControlDecision call
    systemState,         \* PEMApplication.systemState
    isConnected,         \* PEMApplication.isConnected
    inbound,             \* messages the broker has yet to hand to the 'message' callback
    outbound,            \* messages handed to mqttClient.publish, on their way to the broker
    arrived              \* how many messages of other clients the broker has queued

vars == <<populationSize, generation, population, bestSolution, performanceHistory,
          weights, cache, henmpcCall, performanceMetrics, compareCall,
          warmModel, surrogateModel, requests, published, applied,
          populationId, bestSolutionId, nextId, phase, currentVariant,
          variantCall, systemState, isConnected, inbound, outbound, arrived>>

henmpcVars == <<populationSize, generation, population, bestSolution,
                performanceHistory, weights, cache, henmpcCall>>
compareVars == <<performanceMetrics, compareCall>>
webVars == <<warmModel, surrogateModel, requests, published>>
\* the identities of the optimizer's objects and its place inside optimize
objectVars == <<populationId, bestSolutionId, nextId, phase>>
\* the variables no step of the optimizer taken as a whole, of the comparator
\* or of the warm start writes
otherVars == <<objectVars, currentVariant, variantCall, systemState, isConnected,
               inbound, outbound, arrived>>
\* the variant selection of the comparator
variantVars == <<currentVariant, variantCall>>
\* the dashboard application and its MQTT session
appVars == <<systemState, isConnected, inbound, outbound, arrived>>

\* applied before any function has been applied
NoApplication == [fn |-> "none"]

(***************************************************************************)
(* Bounds of the model.                                                    *)
(***************************************************************************)
\* candidates in the population (the program constructs 50)
InitialPopulationSize == 2
\* the highest value of the population slider
MaxPopulationSize == 3
\* optimize calls explored on one optimizer instance
MaxGeneration == 2
\* candidate fields perturbed by mutation() in one generation step
MaxMutations == 1
\* optimize calls of a long run on one instance
LongRunGenerations == 101
\* decision requests explored
MaxRequests == 2
\* hill-climb iterations of one refinement pass (the program runs 120)
RefineIterations == 2

(***************************************************************************)
(* JavaScript numbers.                                                     *)
(***************************************************************************)
Num(n) == [tag |-> "num", val |-> n]
NaN == [tag |-> "nan", val |-> 0]
Undefined == [tag |-> "undefined", val |-> 0]
PosInf == [tag |-> "inf", val |-> 1]
NegInf == [tag |-> "inf", val |-> -1]

\* a whole number n as a fixed-point value
Whole(n) == Num(n * 1000)

IsNum(a) == a.tag = "num"
IsInf(a) == a.tag = "inf"

\* ToNumber: undefined becomes NaN
ToNumber(a) == IF a.tag = "undefined" THEN NaN ELSE a

Sign(n) == IF n > 0 THEN 1 ELSE IF n < 0 THEN -1 ELSE 0

AbsInt(n) == IF n < 0 THEN -n ELSE n

\* integer quotient rounded toward zero
QuotInt(n, d) == Sign(n) * Sign(d) * (AbsInt(n) \div AbsInt(d))

Neg(a0) ==
    LET a == ToNumber(a0) IN
    IF a.tag = "nan" THEN NaN
    ELSE IF IsInf(a) THEN [tag |-> "inf", val |-> -a.val]
    ELSE Num(-a.val)

Add(a0, b0) ==
    LET a == ToNumber(a0)
        b == ToNumber(b0) IN
    IF a.tag = "nan" \/ b.tag = "nan" THEN NaN
    ELSE IF IsInf(a) /\ IsInf(b) THEN (IF a.val = b.val THEN a ELSE NaN)
    ELSE IF IsInf(a) THEN a
    ELSE IF IsInf(b) THEN b
    ELSE Num(a.val + b.val)

Sub(a, b) == Add(a, Neg(b))

Mul(a0, b0) ==
    LET a == ToNumber(a0)
        b == ToNumber(b0) IN
    IF a.tag = "nan" \/ b.tag = "nan" THEN NaN
    ELSE IF IsInf(a) \/ IsInf(b)
         THEN (IF a.val = 0 \/ b.val = 0 THEN NaN
               ELSE [tag |-> "inf", val |-> Sign(a.val) * Sign(b.val)])
    ELSE Num(QuotInt(a.val * b.val, 1000))

\* a * (p / q) for a literal p/q of the source
MulBy(a0, p, q) ==
    LET a == ToNumber(a0) IN
    IF a.tag = "nan" THEN NaN
    ELSE IF IsInf(a) THEN (IF p = 0 THEN NaN ELSE [tag |-> "inf", val |-> a.val * Sign(p)])
    ELSE Num(QuotInt(a.val * p, q))

Div(a0, b0) ==
    LET a == ToNumber(a0)
        b == ToNumber(b0) IN
    IF a.tag = "nan" \/ b.tag = "nan" THEN NaN
    ELSE IF IsInf(a) THEN (IF IsInf(b) THEN NaN
                           ELSE [tag |-> "inf", val |-> a.val * (IF b.val < 0 THEN -1 ELSE 1)])
    ELSE IF IsInf(b) THEN Num(0)
    ELSE IF b.val = 0 THEN (IF a.val = 0 THEN NaN ELSE [tag |-> "inf", val |-> Sign(a.val)])
    ELSE Num(QuotInt(a.val * 1000, b.val))

\* a < b
Lt(a0, b0) ==
    LET a == ToNumber(a0)
        b == ToNumber(b0) IN
    IF a.tag = "nan" \/ b.tag = "nan" THEN FALSE
    ELSE IF IsInf(a) THEN (a.val < 0 /\ ~(IsInf(b) /\ b.val < 0))
    ELSE IF IsInf(b) THEN b.val > 0
    ELSE a.val < b.val

\* a > b
Gt(a, b) == Lt(b, a)

\* a >= b
Geq(a0, b0) ==
    LET a == ToNumber(a0)
        b == ToNumber(b0) IN
    IF a.tag = "nan" \/ b.tag = "nan" THEN FALSE ELSE ~Lt(a, b)

\* a <= b
Leq(a, b) == Geq(b, a)

MathMin(a0, b0) ==
    LET a == ToNumber(a0)
        b == ToNumber(b0) IN
    IF a.tag = "nan" \/ b.tag = "nan" THEN NaN
    ELSE IF Lt(b, a) THEN b ELSE a

MathMax(a0, b0) ==
    LET a == ToNumber(a0)
        b == ToNumber(b0) IN
    IF a.tag = "nan" \/ b.tag = "nan" THEN NaN
    ELSE IF Lt(a, b) THEN b ELSE a

MathAbs(a0) ==
    LET a == ToNumber(a0) IN
    IF a.tag = "nan" THEN NaN
    ELSE IF IsInf(a) THEN PosInf
    ELSE Num(AbsInt(a.val))

\* Math.round: to the nearest whole number, halves upward
MathRound(a0) ==
    LET a == ToNumber(a0) IN
    IF IsNum(a) THEN Num(((a.val + 500) \div 1000) * 1000) ELSE a


(***************************************************************************)
(* Environmental context: KenyaRealData.getCurrentData().                  *)
(***************************************************************************)
NoData == [tag |-> "nodata"]

\* snapshots getCurrentData can build: a working-day noon and an evening peak
Scenarios ==
    { [demand |-> Whole(4000), tariff |-> Num(25200), solar |-> Num(3000),
       reliability |-> Num(920)],
      [demand |-> Whole(3000), tariff |-> Num(31600), solar |-> Num(0),
       reliability |-> Num(846)] }

\* the snapshots a getCurrentData call can return: the cached one while it is
\* younger than updateInterval, a freshly built one otherwise
GetCurrentData(c) == IF c = NoData THEN Scenarios ELSE {c} \cup Scenarios

\* the two snapshots one generateControlDecision call takes: the one optimize
\* evaluates fitness with and the one explainDecision is handed.  A second
\* call that follows a freshly built snapshot is served from the cache; one
\* that follows a snapshot served from the cache finds it still young enough
\* or builds a new one.
getCurrentDataTwice(c) ==
    { <<first, second>> \in Scenarios \X Scenarios :
        /\ first \in GetCurrentData(c)
        /\ second \in (IF first = c THEN GetCurrentData(first) ELSE {first}) }

ApplyGetCurrentDataTwice ==
    /\ applied = NoApplication
    /\ \E c \in {NoData} \cup Scenarios :
       \E snapshots \in getCurrentDataTwice(c) :
          applied' = [fn |-> "generateControlDecision.getCurrentData", cache |-> c,
                      evaluated |-> snapshots[1], explained |-> snapshots[2]]
    /\ UNCHANGED <<henmpcVars, compareVars, webVars, otherVars>>

(***************************************************************************)
(* HENMPC: candidate solutions.                                            *)
(***************************************************************************)
Null == [tag |-> "null"]

\* {...null}: an object without any own property
EmptyObject ==
    [currentSetpoint |-> Undefined, gridRatio |-> Undefined, pvRatio |-> Undefined,
     productionRate |-> Undefined, responseAggressiveness |-> Undefined,
     fitness |-> Undefined, constraintsViolated |-> Undefined]

\* {...x}
Spread(x) == IF x = Null THEN EmptyObject ELSE x

\* values Math.random() takes in initializePopulation
InitRandoms == {Num(200), Num(900)}

\* a solution built by initializePopulation from three draws of Math.random()
NewSolution(r1, r2, r3) ==
    [currentSetpoint |-> Add(Whole(80), MulBy(r1, 70, 1)),
     gridRatio |-> r2,
     pvRatio |-> Sub(Whole(1), r3),
     productionRate |-> Num(0),
     responseAggressiveness |-> Num(750),
     fitness |-> Num(0),
     constraintsViolated |-> Num(0)]

\* the solutions explored: one draw for currentSetpoint and for gridRatio, and
\* for pvRatio a draw equal to gridRatio's and one that differs from it
InitialSolutions ==
    { NewSolution(Num(300), Num(200), r3) : r3 \in InitRandoms }

\* the weights set by the constructor
InitialWeights ==
    [economic |-> Num(350), reliability |-> Num(250), efficiency |-> Num(200),
     sustainability |-> Num(150), safety |-> Num(50)]

Strategies == {"economic", "reliability", "efficiency"}

strategyWeights(strategy) ==
    CASE strategy = "economic" ->
           [economic |-> Num(500), reliability |-> Num(200), efficiency |-> Num(150),
            sustainability |-> Num(100), safety |-> Num(50)]
      [] strategy = "reliability" ->
           [economic |-> Num(200), reliability |-> Num(500), efficiency |-> Num(150),
            sustainability |-> Num(100), safety |-> Num(50)]
      [] strategy = "efficiency" ->
           [economic |-> Num(250), reliability |-> Num(150), efficiency |-> Num(400),
            sustainability |-> Num(150), safety |-> Num(50)]

updateWeights(w, strategy) ==
    IF strategy \in Strategies THEN strategyWeights(strategy) ELSE w

\* the strategy names a caller hands to updateWeights: the three presets and
\* a name that is none of them
StrategyNames == Strategies \cup {"balanced"}

(***************************************************************************)
(* HENMPC: fitness.                                                        *)
(***************************************************************************)
calculateProductionCost(solution, tariff, solar) ==
    LET powerRequired == MulBy(solution.currentSetpoint, 18, 10)
        gridPower == Mul(powerRequired, solution.gridRatio)
        pvPower == Mul(powerRequired, solution.pvRatio)
        gridCost == Mul(MulBy(gridPower, 1, 1000), tariff)
        pvCost == MulBy(MulBy(pvPower, 1, 1000), 2, 1)
        operationalCost == MulBy(solution.productionRate, 17, 100)
    IN Add(Add(gridCost, pvCost), operationalCost)

calculateEconomicFitness(solution, demand, tariff, solar) ==
    LET production == solution.productionRate
        delivered == MathMin(production, demand)
        oxygenRevenue == MulBy(delivered, 150, 1)
        hydrogenRevenue == MulBy(MulBy(solution.currentSetpoint, 1512, 1000), 40, 1)
        productionCost == calculateProductionCost(solution, tariff, solar)
        netProfit == Sub(Add(oxygenRevenue, hydrogenRevenue), productionCost)
    IN MulBy(netProfit, 1, 1000)

calculateReliabilityFitness(solution, best, reliability, demand) ==
    LET r1 == IF Gt(solution.gridRatio, Num(800)) /\ Lt(reliability, Num(900))
              THEN MulBy(Whole(1), 7, 10) ELSE Whole(1)
        demandSatisfaction == MathMin(Whole(1), Div(solution.productionRate, demand))
        r2 == Mul(r1, demandSatisfaction)
    IN IF best # Null
          /\ Gt(MathAbs(Sub(solution.currentSetpoint, best.currentSetpoint)), Whole(20))
       THEN MulBy(r2, 8, 10) ELSE r2

calculateEfficiencyFitness(solution, solarPower) ==
    LET solarUtilization ==
            MathMin(Whole(1),
                    Div(MulBy(Mul(solution.pvRatio, solution.currentSetpoint), 18, 10),
                        MulBy(solarPower, 1000, 1)))
        currentEfficiency ==
            Sub(Whole(1), MulBy(MathAbs(Sub(solution.currentSetpoint, Whole(100))), 1, 100))
    IN Mul(Mul(Whole(1), solarUtilization), currentEfficiency)

calculateSustainabilityFitness(solution, solarPower) ==
    LET gridPower == MulBy(Mul(MulBy(solution.currentSetpoint, 18, 10), solution.gridRatio), 1, 1000)
        pvPower == MulBy(Mul(MulBy(solution.currentSetpoint, 18, 10), solution.pvRatio), 1, 1000)
        emissions == Add(MulBy(gridPower, 5, 10), MulBy(pvPower, 5, 100))
        maxEmissions == MulBy(MulBy(MulBy(solution.currentSetpoint, 18, 10), 5, 10), 1, 1000)
    IN Sub(Whole(1), Div(emissions, maxEmissions))

calculateSafetyFitness(solution) ==
    LET s1 == IF Gt(solution.currentSetpoint, Whole(140)) THEN MulBy(Whole(1), 8, 10) ELSE Whole(1)
        s2 == IF Lt(solution.currentSetpoint, Whole(60)) THEN MulBy(s1, 9, 10) ELSE s1
    IN IF Gt(solution.gridRatio, Num(900)) \/ Gt(solution.pvRatio, Num(900))
       THEN MulBy(s2, 85, 100) ELSE s2

B2N(b) == IF b THEN 1 ELSE 0

checkConstraints(solution, demand) ==
    B2N(Lt(solution.currentSetpoint, Whole(50)) \/ Gt(solution.currentSetpoint, Whole(150)))
    + B2N(Lt(solution.gridRatio, Whole(0)) \/ Gt(solution.gridRatio, Whole(1)))
    + B2N(Lt(solution.pvRatio, Whole(0)) \/ Gt(solution.pvRatio, Whole(1)))
    + B2N(Gt(MathAbs(Sub(Add(solution.gridRatio, solution.pvRatio), Whole(1))), Num(10)))
    + B2N(Lt(solution.productionRate, Whole(0)))

\* the body of evaluateFitness's forEach, for one solution
evaluateSolution(solution, w, best, kenyaData) ==
    LET s == [solution EXCEPT !.productionRate = MulBy(solution.currentSetpoint, 756, 1000)]
        economicFitness == calculateEconomicFitness(s, kenyaData.demand, kenyaData.tariff, kenyaData.solar)
        reliabilityFitness == calculateReliabilityFitness(s, best, kenyaData.reliability, kenyaData.demand)
        efficiencyFitness == calculateEfficiencyFitness(s, kenyaData.solar)
        sustainabilityFitness == calculateSustainabilityFitness(s, kenyaData.solar)
        safetyFitness == calculateSafetyFitness(s)
        f1 == Add(Num(0), Mul(economicFitness, w.economic))
        f2 == Add(f1, Mul(reliabilityFitness, w.reliability))
        f3 == Add(f2, Mul(efficiencyFitness, w.efficiency))
        f4 == Add(f3, Mul(sustainabilityFitness, w.sustainability))
        f5 == Add(f4, Mul(safetyFitness, w.safety))
        constraints == checkConstraints(s, kenyaData.demand)
    IN [s EXCEPT !.fitness = Sub(f5, Whole(constraints * 10)),
                 !.constraintsViolated = Whole(constraints)]

evaluateFitness(pop, w, best, kenyaData) ==
    [i \in 1..Len(pop) |-> evaluateSolution(pop[i], w, best, kenyaData)]

\* a candidate with the given power blend, as it stands in the population
\* before a generation step evaluates it
Candidate(currentSetpoint, gridRatio, pvRatio) ==
    [currentSetpoint |-> currentSetpoint, gridRatio |-> gridRatio,
     pvRatio |-> pvRatio, productionRate |-> Num(0),
     responseAggressiveness |-> Num(750), fitness |-> Num(0),
     constraintsViolated |-> Num(0)]

\* the setpoints of the candidates evaluated: the limits of the current range
\* and the middle of the efficient range
Setpoints == {Whole(50), Whole(100), Whole(150)}

\* evaluateFitness's loop body applied to two candidates that differ in
\* gridRatio only, 1.0 and 1.5, under every scenario and every weight record
ApplyEvaluatePair ==
    /\ applied = NoApplication
    /\ \E kenyaData \in Scenarios :
       \E w \in {InitialWeights} \cup {strategyWeights(st) : st \in Strategies} :
       \E current \in Setpoints :
       \E pvRatio \in {Num(0), Num(500)} :
          applied' = [fn |-> "evaluateSolution", kenyaData |-> kenyaData,
                      valid |-> evaluateSolution(
                                   Candidate(current, Whole(1), pvRatio),
                                   w, Null, kenyaData),
                      invalid |-> evaluateSolution(
                                   Candidate(current, Num(1500), pvRatio),
                                   w, Null, kenyaData)]
    /\ UNCHANGED <<henmpcVars, compareVars, webVars, otherVars>>

\* snapshots with a malformed entry: a negative demand, a tariff that is not
\* finite
MalformedScenarios ==
    { [sc EXCEPT !.demand = Whole(-100)] : sc \in Scenarios }
    \cup { [sc EXCEPT !.tariff = t] : sc \in Scenarios, t \in {NaN, PosInf} }

\* evaluateFitness's loop body applied to a candidate inside every limit, under
\* a malformed snapshot
ApplyEvaluateMalformed ==
    /\ applied = NoApplication
    /\ \E kenyaData \in MalformedScenarios :
       \E current \in Setpoints :
       \E gridRatio \in {Num(0), Num(500)} :
          applied' = [fn |-> "evaluateSolution.malformed", kenyaData |-> kenyaData,
                      out |-> evaluateSolution(
                                 Candidate(current, gridRatio, Sub(Whole(1), gridRatio)),
                                 strategyWeights("economic"), Null, kenyaData)]
    /\ UNCHANGED <<henmpcVars, compareVars, webVars, otherVars>>

(***************************************************************************)
(* HENMPC: selection, crossover, mutation.                                 *)
(***************************************************************************)
tournamentSize == 5

\* bestInTournament after one more draw c of
\* Math.floor(Math.random() * populationSize), 1-based.  b is the position it
\* names, 0 when it is null or undefined, -1 once `candidate.fitness` has
\* thrown on a candidate beyond the end of the population.
tournamentDraw(pop, b, c) ==
    IF b = -1 THEN -1
    ELSE IF b = 0 THEN (IF c <= Len(pop) THEN c ELSE 0)
    ELSE IF c > Len(pop) THEN -1
    ELSE IF Gt(pop[c].fitness, pop[b].fitness) THEN c ELSE b

\* the values of bestInTournament possible after k draws
RECURSIVE TournamentBest(_, _, _)
TournamentBest(pop, size, k) ==
    IF k = 0 THEN {0}
    ELSE { tournamentDraw(pop, b, c) :
             b \in TournamentBest(pop, size, k - 1), c \in 1..size }

\* selection(): the elite first, then one tournament winner per remaining slot;
\* sel[i] is the winner of the tournament run for slot i
selection(pop, best, size, sel) ==
    [i \in 1..(IF size < 1 THEN 1 ELSE size) |->
        IF i = 1 THEN Spread(best)
        ELSE IF sel[i] = 0 THEN EmptyObject
        ELSE Spread(pop[sel[i]])]

\* the 1-based positions of parent1 visited by crossover's loop (i = 1, 3, ...)
CrossoverSites(n) == { q \in 2..n : q % 2 = 0 }

\* one pair of crossover(): point -1 is "no crossover", 0..2 the crossoverPoint
crossPair(pop, q, point) ==
    LET r == IF q + 1 <= Len(pop) THEN q + 1 ELSE 1
        p1 == pop[q]
        p2 == pop[r]
    IN CASE point = 0 ->
              [pop EXCEPT ![q].currentSetpoint = p2.currentSetpoint,
                          ![r].currentSetpoint = p1.currentSetpoint]
         [] point = 1 ->
              [pop EXCEPT ![q].gridRatio = p2.gridRatio,
                          ![q].pvRatio = Sub(Whole(1), p2.gridRatio),
                          ![r].gridRatio = p1.gridRatio,
                          ![r].pvRatio = Sub(Whole(1), p1.gridRatio)]
         [] point = 2 ->
              [pop EXCEPT ![q].responseAggressiveness = p2.responseAggressiveness,
                          ![r].responseAggressiveness = p1.responseAggressiveness]
         [] OTHER -> pop

RECURSIVE crossoverFrom(_, _, _)
crossoverFrom(pop, q, cx) ==
    IF q > Len(pop) THEN pop
    ELSE crossoverFrom(crossPair(pop, q, cx[q]), q + 2, cx)

\* crossover(): the pairs in loop order, cx[q] the draw made for the pair at q
crossover(pop, cx) == crossoverFrom(pop, 2, cx)

\* the fields mutation() perturbs, and the draws (Math.random() - 0.5) * width
\* explored for each
MutationFields == {"currentSetpoint", "gridRatio", "responseAggressiveness"}

MutationDraws(field) ==
    CASE field = "currentSetpoint" -> {Num(-10000)}
      [] field = "gridRatio" -> {Num(-100), Num(50)}
      [] field = "responseAggressiveness" -> {Num(25)}

Clamp(lo, hi, x) == MathMax(lo, MathMin(hi, x))

\* the body of mutation()'s forEach for one solution; m[field] is the draw
\* added to the field, or Null when Math.random() >= mutationRate
mutateSolution(solution, m) ==
    LET s1 == IF m["currentSetpoint"] = Null THEN solution
              ELSE [solution EXCEPT !.currentSetpoint =
                        Clamp(Whole(50), Whole(150),
                              Add(solution.currentSetpoint, m["currentSetpoint"]))]
        g == Clamp(Whole(0), Whole(1), Add(s1.gridRatio, m["gridRatio"]))
        s2 == IF m["gridRatio"] = Null THEN s1
              ELSE [s1 EXCEPT !.gridRatio = g, !.pvRatio = Sub(Whole(1), g)]
    IN IF m["responseAggressiveness"] = Null THEN s2
       ELSE [s2 EXCEPT !.responseAggressiveness =
                 Clamp(Num(500), Whole(1),
                       Add(s2.responseAggressiveness, m["responseAggressiveness"]))]

mutation(pop, mut) == [i \in 1..Len(pop) |-> mutateSolution(pop[i], mut[i])]

\* the draws of one mutation() call over n solutions that perturb at most
\* MaxMutations fields
MutationPlans(n) ==
    LET sites == (1..n) \X MutationFields
        chosen == { c \in SUBSET sites : Cardinality(c) <= MaxMutations }
        draws(c) == { [i \in 1..n |-> [f \in MutationFields |->
                          IF <<i, f>> \in c THEN d[<<i, f>>] ELSE Null]] :
                      d \in [c -> UNION { MutationDraws(f) : f \in MutationFields }] }
        fits(mut) == \A i \in 1..n : \A f \in MutationFields :
                        mut[i][f] = Null \/ mut[i][f] \in MutationDraws(f)
    IN { mut \in UNION { draws(c) : c \in chosen } : fits(mut) }

RECURSIVE bestFrom(_, _, _)
bestFrom(pop, i, best) ==
    IF i > Len(pop) THEN best
    ELSE bestFrom(pop, i + 1, IF Gt(pop[i].fitness, best.fitness) THEN pop[i] ELSE best)

\* updateBestSolution(): the value assigned to bestSolution
updateBestSolution(pop) == Spread(bestFrom(pop, 1, pop[1]))

RECURSIVE sumFitness(_, _)
sumFitness(pop, i) ==
    IF i > Len(pop) THEN Num(0) ELSE Add(sumFitness(pop, i + 1), pop[i].fitness)

getAverageFitness(pop) == Div(sumFitness(pop, 1), Whole(Len(pop)))


(***************************************************************************)
(* HENMPC: optimize and generateControlDecision.                           *)
(***************************************************************************)
RECURSIVE sumBestFitness(_, _)
sumBestFitness(h, i) ==
    IF i > Len(h) THEN Num(0) ELSE Add(sumBestFitness(h, i + 1), h[i].bestFitness)

\* the confidence before Math.max(0.3, Math.min(0.95, .)) is applied to it
calculateConfidenceUnclamped(solution, history) ==
    LET recent == SubSeq(history, IF Len(history) > 5 THEN Len(history) - 4 ELSE 1,
                         Len(history))
        avgImprovement == MulBy(sumBestFitness(recent, 1), 1, 5)
        c1 == IF Len(history) > 5 /\ Gt(avgImprovement, MulBy(solution.fitness, 95, 100))
              THEN Num(900) ELSE Num(700)
    IN IF Gt(solution.constraintsViolated, Num(0))
       THEN Sub(c1, MulBy(solution.constraintsViolated, 1, 10)) ELSE c1

calculateConfidence(solution, history) ==
    LET recent == SubSeq(history, IF Len(history) > 5 THEN Len(history) - 4 ELSE 1,
                         Len(history))
        avgImprovement == MulBy(sumBestFitness(recent, 1), 1, 5)
        c1 == IF Len(history) > 5 /\ Gt(avgImprovement, MulBy(solution.fitness, 95, 100))
              THEN Num(900) ELSE Num(700)
        c2 == IF Gt(solution.constraintsViolated, Num(0))
              THEN Sub(c1, MulBy(solution.constraintsViolated, 1, 10)) ELSE c1
    IN MathMax(Num(300), MathMin(Num(950), c2))

\* performance histories of n records that all hold the same bestFitness
HistoryOf(n, bestFitness) ==
    [i \in 1..n |-> [generation |-> i, bestFitness |-> bestFitness,
                     averageFitness |-> bestFitness, strategy |-> "economic"]]

\* the numbers of records in the histories calculateConfidence is applied to
HistoryLengths == {0, 5, 6, 7}

\* the fitness values of solutions and history records: numbers of both
\* signs, and the values an emptied elite leaves behind
FitnessValues == {Num(-20500), Num(310), Num(1200), NaN, Undefined}

\* the numbers of violations checkConstraints can count, and the field of a
\* solution that was never evaluated
ViolationCounts == {Whole(v) : v \in 0..5} \cup {Undefined}

\* calculateConfidence applied to a solution and, beside it, to the same
\* solution without its violations
ApplyCalculateConfidence ==
    /\ applied = NoApplication
    /\ \E n \in HistoryLengths :
       \E bestFitness \in FitnessValues :
       \E fitness \in FitnessValues :
       \E violations \in ViolationCounts :
          LET history == HistoryOf(n, bestFitness)
              solution == [Candidate(Whole(100), Num(500), Num(500)) EXCEPT
                              !.fitness = fitness,
                              !.constraintsViolated = violations]
          IN applied' = [fn |-> "calculateConfidence", solution |-> solution,
                         history |-> history,
                         out |-> calculateConfidence(solution, history),
                         clean |-> calculateConfidence(
                                      [solution EXCEPT !.constraintsViolated = Num(0)],
                                      history)]
    /\ UNCHANGED <<henmpcVars, compareVars, webVars, otherVars>>

\* the record built by generateControlDecision from optimize's result
Decision(solution, gen, history) ==
    [optimalCurrent |-> MathRound(solution.currentSetpoint),
     gridRatio |-> solution.gridRatio,
     pvRatio |-> solution.pvRatio,
     expectedProduction |-> solution.productionRate,
     fitness |-> solution.fitness,
     generation |-> gen,
     confidence |-> calculateConfidence(solution, history)]

\* x.toFixed(2) throws a TypeError when x is undefined
ToFixedThrows(x) == x.tag = "undefined"

\* optimize(currentState, strategy): one generation step.  evaluated is the
\* population as evaluateFitness left it under the weights w; sel, cx and mut
\* are the draws of Math.random() made by selection, crossover and mutation.
optimize(strategy, w, evaluated, sel, cx, mut) ==
    LET selected == selection(evaluated, bestSolution, populationSize, sel)
        evolved == mutation(crossover(selected, cx), mut)
        best == updateBestSolution(evolved)
        history == Append(performanceHistory,
                          [generation |-> generation + 1,
                           bestFitness |-> best.fitness,
                           averageFitness |-> getAverageFitness(evolved),
                           strategy |-> strategy])
    IN [weights |-> w, population |-> evolved, bestSolution |-> best,
        generation |-> generation + 1, performanceHistory |-> history,
        threw |-> ToFixedThrows(best.fitness)]

\* optimize when selection throws: this.generation++, updateWeights and
\* evaluateFitness have run, nothing after them has
optimizeSelectionThrows(w, evaluated) ==
    [weights |-> w, population |-> evaluated, bestSolution |-> bestSolution,
     generation |-> generation + 1, performanceHistory |-> performanceHistory,
     threw |-> TRUE]

NoCall == [op |-> "none", outcome |-> "none", decision |-> Null]

\* the state a generateControlDecision call leaves, given what optimize did
Called(o) ==
    /\ weights' = o.weights
    /\ population' = o.population
    /\ bestSolution' = o.bestSolution
    /\ generation' = o.generation
    /\ performanceHistory' = o.performanceHistory
    /\ henmpcCall' =
         IF o.threw
         THEN [op |-> "generateControlDecision", outcome |-> "TypeError",
               decision |-> Null]
         ELSE [op |-> "generateControlDecision", outcome |-> "returned",
               decision |-> Decision(o.bestSolution, o.generation,
                                     o.performanceHistory)]

\* henmpc.generateControlDecision(currentState), for the calls up to the
\* limit-th of the instance, with the context drawn from scenarios, the draws
\* of crossover from crossings and those of mutation from plans
GenerationStep(limit, scenarios, crossings, plans) ==
    /\ generation < limit
    /\ \E kenyaData \in GetCurrentData(cache) \cap scenarios :
       \E w \in {updateWeights(weights, "economic")} :
       \E evaluated \in {evaluateFitness(population, w, bestSolution, kenyaData)} :
       \E winners \in {TournamentBest(evaluated, populationSize, tournamentSize)} :
          /\ cache' = kenyaData
          /\ \/ /\ populationSize >= 2
                /\ -1 \in winners
                /\ Called(optimizeSelectionThrows(w, evaluated))
             \/ \E sel \in [2..populationSize -> winners \ {-1}] :
                \E cx \in [CrossoverSites(populationSize) -> crossings] :
                \E mut \in plans :
                \E o \in {optimize("economic", w, evaluated, sel, cx, mut)} :
                   Called(o)
    /\ UNCHANGED <<populationSize, compareVars, webVars, applied, otherVars>>

GenerateControlDecision ==
    GenerationStep(MaxGeneration, Scenarios, -1..2, MutationPlans(populationSize))

\* the calls of a long run under one scenario, in which no draw of
\* Math.random() triggers a crossover or a mutation
NoMutation(n) == [i \in 1..n |-> [f \in MutationFields |-> Null]]

LongRunControlDecision ==
    GenerationStep(LongRunGenerations, {CHOOSE c \in Scenarios : c.solar.val = 0},
                   {-1}, {NoMutation(populationSize)})

(***************************************************************************)
(* HENMPC.optimize statement by statement, with the identity of every      *)
(* object: evaluateFitness, crossover and mutation write the population's  *)
(* objects in place, a spread {...x} makes a new object.                   *)
(***************************************************************************)
\* `this.bestSolution = best`: bestSolution is the population member itself
bestSolutionAlias(member, fresh) == member

\* `this.bestSolution = {...best}`: bestSolution is a new object
bestSolutionObject(member, fresh) == fresh

\* the fields read through a reference to object id once the objects ids of the
\* population hold pop: those of the member when id is one of them, else held
readThrough(ids, pop, id, held) ==
    IF \E i \in DOMAIN ids : ids[i] = id
    THEN pop[CHOOSE i \in DOMAIN ids : ids[i] = id]
    ELSE held

\* the position of `best` when updateBestSolution's loop ends
RECURSIVE bestIndex(_, _, _)
bestIndex(pop, i, b) ==
    IF i > Len(pop) THEN b
    ELSE bestIndex(pop, i + 1, IF Gt(pop[i].fitness, pop[b].fitness) THEN i ELSE b)

\* optimize: this.generation++, updateWeights, getCurrentData, evaluateFitness
OptimizeEvaluate ==
    /\ phase = "idle"
    /\ generation < MaxGeneration
    /\ \E kenyaData \in GetCurrentData(cache) \cap Scenarios :
       \E w \in {updateWeights(weights, "economic")} :
       \E evaluated \in {evaluateFitness(population, w, bestSolution, kenyaData)} :
          /\ cache' = kenyaData
          /\ weights' = w
          /\ population' = evaluated
          /\ bestSolution' = readThrough(populationId, evaluated, bestSolutionId,
                                         bestSolution)
    /\ generation' = generation + 1
    /\ phase' = "selection"
    /\ UNCHANGED <<populationSize, performanceHistory, henmpcCall, populationId,
                   bestSolutionId, nextId, compareVars, webVars, applied, variantVars, appVars>>

\* optimize: this.selection(), every slot a spread into a new object
OptimizeSelection ==
    /\ phase = "selection"
    /\ \E winners \in {TournamentBest(population, populationSize, tournamentSize)} :
       \E sel \in [2..populationSize -> winners \ {-1}] :
          population' = selection(population, bestSolution, populationSize, sel)
    /\ populationId' = [i \in 1..populationSize |-> nextId + i - 1]
    /\ nextId' = nextId + populationSize
    /\ phase' = "crossover"
    /\ UNCHANGED <<populationSize, generation, bestSolution, performanceHistory,
                   weights, cache, henmpcCall, bestSolutionId, compareVars,
                   webVars, applied, variantVars, appVars>>

\* optimize: this.crossover()
OptimizeCrossover ==
    /\ phase = "crossover"
    /\ \E cx \in [CrossoverSites(populationSize) -> -1..2] :
       \E crossed \in {crossover(population, cx)} :
          /\ population' = crossed
          /\ bestSolution' = readThrough(populationId, crossed, bestSolutionId,
                                         bestSolution)
    /\ phase' = "mutation"
    /\ UNCHANGED <<populationSize, generation, performanceHistory, weights, cache,
                   henmpcCall, populationId, bestSolutionId, nextId, compareVars,
                   webVars, applied, variantVars, appVars>>

\* optimize: this.mutation()
OptimizeMutation ==
    /\ phase = "mutation"
    /\ \E mut \in MutationPlans(populationSize) :
       \E mutated \in {mutation(population, mut)} :
          /\ population' = mutated
          /\ bestSolution' = readThrough(populationId, mutated, bestSolutionId,
                                         bestSolution)
    /\ phase' = "updateBestSolution"
    /\ UNCHANGED <<populationSize, generation, performanceHistory, weights, cache,
                   henmpcCall, populationId, bestSolutionId, nextId, compareVars,
                   webVars, applied, variantVars, appVars>>

\* optimize: this.updateBestSolution(), then the performance record, the log
\* line and the return
OptimizeUpdateBestSolution ==
    /\ phase = "updateBestSolution"
    /\ \E best \in {updateBestSolution(population)} :
          Called([weights |-> weights, population |-> population,
                  bestSolution |-> best, generation |-> generation,
                  performanceHistory |->
                      Append(performanceHistory,
                             [generation |-> generation,
                              bestFitness |-> best.fitness,
                              averageFitness |-> getAverageFitness(population),
                              strategy |-> "economic"]),
                  threw |-> ToFixedThrows(best.fitness)])
    /\ bestSolutionId' =
          bestSolutionObject(populationId[bestIndex(population, 1, 1)], nextId)
    /\ nextId' = nextId + 1
    /\ phase' = "idle"
    /\ UNCHANGED <<populationSize, cache, populationId, compareVars, webVars,
                   applied, variantVars, appVars>>

\* the fields of app.systemState that runMPCOptimization and the message
\* handlers write, as the constructor sets them
InitialSystemState ==
    [operating |-> FALSE, current |-> Whole(80), gridRatio |-> Num(500),
     pvRatio |-> Num(500), powerSource |-> "auto"]

\* `decision && decision.confidence >= 0.7`
confidentFrom(decision) ==
    decision # Null /\ Geq(decision.confidence, Num(700))

\* `decision && decision.confidence > 0.7`
confident(decision) ==
    decision # Null /\ Gt(decision.confidence, Num(700))

\* app.runMPCOptimization() from the decision it got on: the system state it
\* leaves and the topics publishMPCDecision published on
runMPCOptimization(state, decision, connected) ==
    IF confident(decision)
    THEN [systemState |-> [state EXCEPT !.current = decision.optimalCurrent,
                                              !.gridRatio = decision.gridRatio,
                                              !.pvRatio = decision.pvRatio],
          published |-> IF connected
                        THEN <<"web/mpc/decision", "power/mpc/decision">>
                        ELSE <<>>]
    ELSE [systemState |-> state, published |-> <<>>]

\* runMPCOptimization applied to the decision generateControlDecision builds
\* after its generation-th step from a best solution and the history
ApplyRunMPCOptimization ==
    /\ applied = NoApplication
    /\ \E n \in HistoryLengths \ {0} :
       \E bestFitness \in FitnessValues :
       \E fitness \in FitnessValues :
       \E violations \in ViolationCounts :
       \E connected \in BOOLEAN :
          LET solution == [Candidate(Whole(100), Num(200), Num(800)) EXCEPT
                              !.fitness = fitness,
                              !.constraintsViolated = violations]
              decision == Decision(solution, n, HistoryOf(n, bestFitness))
          IN applied' = [fn |-> "runMPCOptimization", decision |-> decision,
                         solution |-> solution, isConnected |-> connected,
                         out |-> runMPCOptimization(InitialSystemState, decision,
                                                    connected)]
    /\ UNCHANGED <<henmpcVars, compareVars, webVars, otherVars>>

\* ---------------------------------------------------------------------
\* The dashboard application: its MQTT session
\* ---------------------------------------------------------------------

\* how many messages other clients publish in one run
MaxMessages == 2

\* the topics subscribeToTopics subscribes the client to
SubscribedTopics ==
    {"arduino/sensors", "arduino/status", "arduino/current", "matlab/simulation",
     "matlab/current", "matlab/control", "pem/control", "pem/current",
     "power/status", "power/source/selection", "power/blending/ratio",
     "power/mpc/decision"}

\* the grid percentages other clients send, by their payload text
PercentOf == ("30" :> 30) @@ ("80" :> 80)

\* Number.prototype.toString of a grid percentage
PercentToString(gridPercent) ==
    CHOOSE text \in DOMAIN PercentOf : Whole(PercentOf[text]) = gridPercent

\* JSON.parse of a payload that is the text of a number
JSONParseNumber(text) == Whole(PercentOf[text])

\* the messages other clients publish on topics the dashboard listens to
ExternalMessages ==
    [topic : {"pem/control"}, payload : {"start", "stop", "reset"}]
    \cup [topic : {"power/source/selection"}, payload : {"grid", "solar"}]
    \cup [topic : {"power/blending/ratio"}, payload : DOMAIN PercentOf]
    \cup [topic : {"power/mpc/decision"}, payload : {"{}"}]

\* what a handler leaves: the system state and the messages it handed to
\* mqttClient.publish
Handled(state, publishes) == [systemState |-> state, published |-> publishes]

\* publishControlCommand(command)
publishControlCommand(connected, command) ==
    IF ~connected
    THEN <<>>
    ELSE <<[topic |-> "web/control", payload |-> command],
           [topic |-> "pem/control", payload |-> command]>>

\* handleControlCommand(command), with startSystem() and stopSystem()
handleControlCommand(state, connected, command) ==
    CASE command = "start" ->
            Handled([state EXCEPT !.operating = TRUE],
                    publishControlCommand(connected, "start"))
      [] command = "stop" ->
            Handled([state EXCEPT !.operating = FALSE],
                    publishControlCommand(connected, "stop"))
      [] OTHER -> Handled(state, <<>>)

\* updatePowerSource(source)
updatePowerSource(state, connected, source) ==
    Handled([state EXCEPT !.powerSource = source],
            IF connected
            THEN <<[topic |-> "power/source/selection", payload |-> source]>>
            ELSE <<>>)

\* updatePowerBlend(gridPercent)
updatePowerBlend(state, connected, gridPercent) ==
    LET gridRatio == Div(gridPercent, Whole(100))
    IN Handled([state EXCEPT !.gridRatio = gridRatio,
                             !.pvRatio = Sub(Whole(1), gridRatio)],
               IF connected
               THEN <<[topic |-> "power/blending/ratio",
                       payload |-> PercentToString(gridPercent)]>>
               ELSE <<>>)

\* handleMQTTMessage(topic, message): JSON.parse where the payload parses, the
\* text otherwise, then routeMQTTMessage; a topic without a handler does nothing
routeMQTTMessage(state, connected, message) ==
    CASE message.topic = "pem/control" ->
            handleControlCommand(state, connected, message.payload)
      [] message.topic = "power/source/selection" ->
            updatePowerSource(state, connected, message.payload)
      [] message.topic = "power/blending/ratio" ->
            updatePowerBlend(state, connected, JSONParseNumber(message.payload))
      [] OTHER -> Handled(state, <<>>)

\* mqttClient.on('connect'): isConnected = true, subscribeToTopics()
MqttConnect ==
    /\ ~isConnected
    /\ isConnected' = TRUE
    /\ UNCHANGED <<systemState, inbound, outbound, arrived>>
    /\ UNCHANGED <<henmpcVars, compareVars, webVars, applied, objectVars,
                   variantVars>>

\* another client publishes on a subscribed topic: the broker queues the
\* message for the dashboard
BrokerDelivers ==
    /\ isConnected
    /\ arrived < MaxMessages
    /\ \E message \in ExternalMessages :
          inbound' = Append(inbound, message)
    /\ arrived' = arrived + 1
    /\ UNCHANGED <<systemState, isConnected, outbound>>
    /\ UNCHANGED <<henmpcVars, compareVars, webVars, applied, objectVars,
                   variantVars>>

\* mqttClient.on('message'): handleMQTTMessage on the oldest queued message
HandleMQTTMessage ==
    /\ inbound # <<>>
    /\ \E out \in {routeMQTTMessage(systemState, isConnected, Head(inbound))} :
          /\ systemState' = out.systemState
          /\ outbound' = outbound \o out.published
    /\ inbound' = Tail(inbound)
    /\ UNCHANGED <<isConnected, arrived>>
    /\ UNCHANGED <<henmpcVars, compareVars, webVars, applied, objectVars,
                   variantVars>>

\* the broker receives the oldest message the client published and queues it
\* for every subscriber of its topic, the client itself among them where it
\* subscribed to the topic
BrokerRoutes ==
    /\ outbound # <<>>
    /\ inbound' = IF Head(outbound).topic \in SubscribedTopics
                  THEN Append(inbound, Head(outbound))
                  ELSE inbound
    /\ outbound' = Tail(outbound)
    /\ UNCHANGED <<systemState, isConnected, arrived>>
    /\ UNCHANGED <<henmpcVars, compareVars, webVars, applied, objectVars,
                   variantVars>>

\* app.updateMPCParams('population', value): the population slider
UpdateMPCParams ==
    /\ \E value \in 1..MaxPopulationSize :
          /\ value # populationSize
          /\ populationSize' = value
    /\ UNCHANGED <<generation, population, bestSolution, performanceHistory,
                   weights, cache, henmpcCall, compareVars, webVars, applied, otherVars>>

\* app.selectMPCStrategy(strategy): the strategy buttons; selectVariant('henmpc')
\* changes nothing of the optimizer
SelectMPCStrategy ==
    /\ \E strategy \in StrategyNames :
          /\ weights' = updateWeights(weights, strategy)
          /\ weights' # weights \/ strategy \notin Strategies
    /\ UNCHANGED <<populationSize, generation, population, bestSolution,
                   performanceHistory, cache, henmpcCall, compareVars, webVars,
                   applied, otherVars>>

(***************************************************************************)
(* MPCController.compareVariants.                                          *)
(***************************************************************************)
\* Object.entries(this.variants), in insertion order
Variants == <<"henmpc", "linear", "nonlinear", "adaptive", "robust">>

VariantNames == { Variants[i] : i \in 1..Len(Variants) }

\* the sets of variants whose control law (generateControlDecision or
\* computeControl) throws when it is called, as explored: none, any single
\* one, all of them
FaultSets == {{}} \cup { {v} : v \in VariantNames } \cup {VariantNames}

\* The try block of compareVariants declares `const performance` (the variant's
\* performance record), so inside the block the identifier names that binding
\* and not the global timer; `performance.now()` on the block's first line
\* reads it before its initialisation.
PerformanceBinding == "uninitialised block binding"

\* one pass through the try block for variant name: the performance record
\* pushed onto results, or the error caught
tryVariant(name, faulty) ==
    IF PerformanceBinding = "uninitialised block binding"
    THEN [threw |-> TRUE, error |-> "ReferenceError", variant |-> name]
    ELSE IF name \in faulty
    THEN [threw |-> TRUE, error |-> "Error", variant |-> name]
    ELSE [threw |-> FALSE, error |-> "none", variant |-> name]

\* results after the for loop: the variants whose try block completed, in
\* enumeration order
RECURSIVE testVariants(_, _)
testVariants(i, faulty) ==
    IF i > Len(Variants) THEN <<>>
    ELSE IF tryVariant(Variants[i], faulty).threw THEN testVariants(i + 1, faulty)
    ELSE <<Variants[i]>> \o testVariants(i + 1, faulty)

\* the push with pop() in place of shift(): the newest entry goes
pushMetricsPop(metrics, entry) ==
    LET pushed == Append(metrics, entry)
    IN IF Len(pushed) > 100 THEN SubSeq(pushed, 1, Len(pushed) - 1) ELSE pushed

\* performanceMetrics after push and the shift that keeps the last 100
pushMetrics(metrics, entry) ==
    LET pushed == Append(metrics, entry)
    IN IF Len(pushed) > 100 THEN Tail(pushed) ELSE pushed

\* mpcController.compareVariants(): an async function without await, so it
\* runs to its end (or to its first uncaught error) within the call
CompareVariants ==
    /\ \E faulty \in FaultSets :
       \E results \in {testVariants(1, faulty)} :
          IF results = <<>>
          THEN \* results[0].variant: results[0] is undefined
               /\ compareCall' = [op |-> "compareVariants", faulty |-> faulty,
                                  outcome |-> "rejected", error |-> "TypeError",
                                  results |-> results]
               /\ UNCHANGED performanceMetrics
          ELSE /\ performanceMetrics' =
                    pushMetrics(performanceMetrics,
                                [results |-> results, bestVariant |-> results[1]])
               /\ compareCall' = [op |-> "compareVariants", faulty |-> faulty,
                                  outcome |-> "resolved", error |-> "none",
                                  results |-> results]
    /\ UNCHANGED <<henmpcVars, webVars, applied, otherVars>>

\* the place of x in a ranking under the comparator
\* (a, b) => b.overallScore - a.overallScore, written the wrong way round
RECURSIVE insertAscending(_, _)
insertAscending(sorted, x) ==
    IF sorted = <<>> THEN <<x>>
    ELSE IF Lt(x.overallScore, sorted[1].overallScore) THEN <<x>> \o sorted
    ELSE <<sorted[1]>> \o insertAscending(Tail(sorted), x)

\* sorted with x put in under (a, b) => b.overallScore - a.overallScore: x
\* goes before the first element the comparator puts after it, so behind the
\* elements of equal score (Array.prototype.sort is stable)
RECURSIVE insertByScore(_, _)
insertByScore(sorted, x) ==
    IF sorted = <<>> THEN <<x>>
    ELSE IF Gt(x.overallScore, sorted[1].overallScore) THEN <<x>> \o sorted
    ELSE <<sorted[1]>> \o insertByScore(Tail(sorted), x)

\* results.sort((a, b) => b.overallScore - a.overallScore)
RECURSIVE sortResults(_, _)
sortResults(results, k) ==
    IF k = 0 THEN <<>>
    ELSE insertByScore(sortResults(results, k - 1), results[k])

\* compareVariants after its for loop, applied to the results the loop has
\* collected and to the metrics held: the sort, the push and the shift
recordComparison(metrics, results) ==
    LET ranking == sortResults(results, Len(results))
    IN IF ranking = <<>>
       THEN [threw |-> TRUE, ranking |-> ranking, metrics |-> metrics]
       ELSE [threw |-> FALSE, ranking |-> ranking,
             metrics |-> pushMetrics(metrics, [results |-> ranking,
                                               bestVariant |-> ranking[1].variant])]

\* values of overallScore
Scores == {Num(412), Num(655)}

\* the results arrays the for loop can build: the variants that did not
\* throw, in enumeration order, each with its overallScore
RECURSIVE resultsOf(_, _, _)
resultsOf(i, present, score) ==
    IF i > Len(Variants) THEN <<>>
    ELSE IF Variants[i] \in present
    THEN <<[variant |-> Variants[i], overallScore |-> score[Variants[i]]]>>
         \o resultsOf(i + 1, present, score)
    ELSE resultsOf(i + 1, present, score)

\* the metrics held after n recorded comparisons, the n-th one named by n
MetricsAfter(n) == [i \in 1..n |-> [results |-> <<>>, bestVariant |-> "none", run |-> i]]

\* the numbers of comparisons recorded before the one applied
MetricsLengths == {0, 1, 99, 100}

ApplyRecordComparison ==
    /\ applied = NoApplication
    /\ \E n \in MetricsLengths :
       \E present \in SUBSET VariantNames :
       \E score \in [present -> Scores] :
          LET results == resultsOf(1, present, score)
              metrics == MetricsAfter(n)
          IN applied' = [fn |-> "recordComparison", metrics |-> metrics,
                         results |-> results,
                         out |-> recordComparison(metrics, results)]
    /\ UNCHANGED <<henmpcVars, compareVars, webVars, otherVars>>

\* names of properties every object inherits from Object.prototype
InheritedNames == {"constructor", "toString"}

\* the names selectVariant is called with: the registered ones, one that no
\* object knows, and the inherited ones
RequestedNames == VariantNames \cup {"pid"} \cup InheritedNames

\* this.variants[name]: the variant registered under the name, the function
\* Object.prototype holds under it, or undefined
variantOf(name) ==
    IF name \in VariantNames THEN "variant"
    ELSE IF name \in InheritedNames THEN "function"
    ELSE "undefined"

\* mpcController.selectVariant(variantName)
SelectVariant ==
    /\ \E variantName \in RequestedNames :
          IF variantOf(variantName) # "undefined"
          THEN /\ currentVariant' = variantName
               /\ variantCall' = [op |-> "selectVariant", name |-> variantName,
                                  outcome |-> "true"]
          ELSE /\ variantCall' = [op |-> "selectVariant", name |-> variantName,
                                  outcome |-> "false"]
               /\ UNCHANGED currentVariant
    /\ UNCHANGED <<henmpcVars, compareVars, webVars, applied, objectVars, appVars>>

\* mpcController.reset(): the variants that have an initialize method are
\* initialised, the metrics emptied
ResetVariants ==
    /\ performanceMetrics' = <<>>
    /\ variantCall' = [op |-> "reset", name |-> "none", outcome |-> "returned"]
    /\ UNCHANGED <<currentVariant, compareCall, henmpcVars, webVars, applied,
                   objectVars, appVars>>

\* mpcController.getControlDecision(currentState) when currentVariant is not
\* 'henmpc': null without a variant, else the result of variant.computeControl,
\* which is not a function on an inherited property
ComputeControlDecision ==
    /\ currentVariant # "henmpc"
    /\ variantCall' =
          [op |-> "getControlDecision", name |-> currentVariant,
           outcome |-> CASE variantOf(currentVariant) = "undefined" -> "null"
                         [] variantOf(currentVariant) = "function" -> "TypeError"
                         [] OTHER -> "returned"]
    /\ UNCHANGED <<currentVariant, henmpcVars, compareVars, webVars, applied,
                   objectVars, appVars>>

\* mpcController.getControlDecision(currentState) when currentVariant is
\* 'henmpc': the optimizer's generateControlDecision
HenmpcControlDecision ==
    /\ currentVariant = "henmpc"
    /\ GenerateControlDecision

\* a || b on numbers: 0, NaN and undefined are falsy
OrElse(a, b) ==
    IF a.tag \in {"nan", "undefined"} \/ (IsNum(a) /\ a.val = 0) THEN b ELSE a

\* calculateTrackingPerformance(controlResult, scenario)
calculateTrackingPerformance(controlResult, scenario) ==
    LET production == MulBy(OrElse(controlResult.control, controlResult.optimalCurrent),
                            756, 1000)
        error == MathAbs(Sub(production, scenario.reference))
        maxError == Whole(50)
    IN MathMax(Num(0), Sub(Whole(1), Div(error, maxError)))

\* generateTestScenario() for a hospital demand of 100
TestScenario ==
    [currentState |-> Whole(100), reference |-> Whole(100),
     constraints |-> [min |-> Whole(50), max |-> Whole(150)]]

\* results of a variant's calculateControl: a control equal to the reference
\* at no cost, the same under the name optimalCurrent, and the control whose
\* production is the reference
ControlResults ==
    { [control |-> Whole(100), optimalCurrent |-> Undefined, cost |-> Num(0)],
      [control |-> Undefined, optimalCurrent |-> Whole(100), cost |-> Num(0)],
      [control |-> Num(132275), optimalCurrent |-> Undefined, cost |-> Num(0)] }

ApplyTrackingPerformance ==
    /\ applied = NoApplication
    /\ \E controlResult \in ControlResults :
          applied' = [fn |-> "calculateTrackingPerformance",
                      controlResult |-> controlResult, scenario |-> TestScenario,
                      out |-> calculateTrackingPerformance(controlResult, TestScenario)]
    /\ UNCHANGED <<henmpcVars, compareVars, webVars, otherVars>>

(***************************************************************************)
(* Warm start and local refinement: WarmNet, HenMPC, MPC.                  *)
(* Currents are in hundredths of an ampere, ratios in thousandths, costs   *)
(* in millionths.                                                          *)
(***************************************************************************)
\* state vectors [current, water, grid_ratio, pv_ratio, gridPrice, pvForecast],
\* each entry in thousandths
StateVectors ==
    { <<100000, 50000, 500, 500, 150, 60000>>,
      <<150000, 5000, 800, 200, 250, 0>> }

ClampInt(lo, hi, x) == IF x < lo THEN lo ELSE IF x > hi THEN hi ELSE x

RECURSIVE dot(_, _, _)
dot(row, x, j) == IF j > Len(x) THEN 0 ELSE row[j] * x[j] + dot(row, x, j + 1)

matVecMul(W, x) == [i \in 1..Len(W) |-> dot(W[i], x, 1)]

relu(v) == [i \in 1..Len(v) |-> IF v[i] > 0 THEN v[i] ELSE 0]

\* W1 and b1 in thousandths
W1 == << <<4, -10, 600, -200, -1500, 10>>,
         <<10, 0, -400, 800, -500, -20>>,
         <<2, -5, 100, 50, -200, 10>> >>
b1 == <<100, 200, 50>>
\* W2 in tenths, b2 in units
W2 == << <<12, -6, 1>>, <<800, -100, 50>> >>
b2 == <<0, 120>>

\* WarmNet.predict(input): <<grid_ratio, optimal_current>> as numbers, the
\* ratio in thousandths and the current in hundredths.  The hidden layer is
\* in millionths, the output layer in ten-millionths.  An entry the vector
\* does not hold reads as undefined: its normalised value is NaN, every row
\* of W1 multiplies it into its sum, relu's Math.max(0, NaN) is NaN, and so
\* are both rows of the output layer and Math.min(hi, Math.max(lo, NaN)).
WarmNetPredict(input) ==
    IF Len(input) < 6
    THEN << NaN, NaN >>
    ELSE LET inNorm == << input[1] \div 200, input[2] \div 100, input[3],
                          input[4], input[5] * 2, input[6] \div 100 >>
             pre == matVecMul(W1, inNorm)
             h == relu([i \in 1..3 |-> pre[i] + b1[i] * 1000])
             out == matVecMul(W2, h)
             out0 == out[1] + b2[1] * 10000000
             out1 == out[2] \div 10 + b2[2] * 1000000
         IN << Num(ClampInt(0, 1000, QuotInt(out0, 10000))),
               Num(ClampInt(5000, 20000, QuotInt(out1, 10000))) >>

\* the vectors WarmNet.predict is applied to: the page's six features, a
\* vector that drives both outputs past their upper limits, and the five
\* features (o2_rate, water, current, grid_price, pv_price) of the request
\* handler's note
PredictInputs ==
    StateVectors \cup { <<200000, 0, 1000, 0, 0, 0>>,
                        <<100000, 50000, 500, 500, 150>> }

ApplyWarmNetPredict ==
    /\ applied = NoApplication
    /\ \E input \in PredictInputs :
          applied' = [fn |-> "WarmNet.predict", input |-> input,
                      out |-> WarmNetPredict(input)]
    /\ UNCHANGED <<henmpcVars, compareVars, webVars, otherVars>>

\* Math.round(c * 10) / 10 of a current in hundredths
RoundToTenth(c) == ((c + 5) \div 10) * 10

\* raw outputs [grid_ratio, optimal_current] of the trained warm-start model
WarmModelOutputs == { <<1300, 3000>>, <<400, 12034>> }

\* outputs of the surrogate model read by evalCost: o2_rate (millionths of
\* L/s) and purity (thousandths of a percent); 0 stands for a missing entry
SurrogateOutputs == { [o2_rate |-> 21000, purity |-> 0],
                      [o2_rate |-> 15000, purity |-> 99000] }

\* the two draws of Math.random() of one hill-climb iteration, as the
\* perturbations (Math.random()-0.5)*0.1 and (Math.random()-0.5)*8.0
PerturbDraws == { [dg |-> -50, dc |-> -400], [dg |-> 25, dc |-> 215] }

\* evalCost(x, state) without a surrogate model
evalCostPhysics(x, state) ==
    LET energyCost == (x[2] * 9 * (3 * x[1] + (1000 - x[1]))) \div 10000
        waterPenalty == IF state[2] < 10000 THEN 1000000000 ELSE 0
    IN energyCost + waterPenalty

\* evalCost(x, state) with the surrogate's prediction y
evalCostSurrogate(x, state, y) ==
    LET o2_rate == y.o2_rate
        purity == IF y.purity = 0 THEN 99500 ELSE y.purity
        energyCost == (x[2] * 9 * (3 * x[1] + (1000 - x[1]))) \div 10000
        revenue == o2_rate * 72
        purityPenalty == IF purity < 99500 THEN (99500 - purity) * (99500 - purity) * 1000
                         ELSE 0
        smoothPenalty == AbsInt(x[2] - state[1] \div 10) * 100
    IN energyCost - revenue + purityPenalty + smoothPenalty

\* the candidate of one iteration
candidate(best, draw) ==
    << ClampInt(0, 1000, best.x[1] + draw.dg),
       ClampInt(5000, 20000, best.x[2] + draw.dc) >>

\* the acceptance test with the comparison turned round
acceptsHigher(cost, bestCost) == cost > bestCost

\* if(cost < best.cost)
accepts(cost, bestCost) == cost < bestCost

\* best after the iteration that evaluated cand at cost
climb(best, cand, cost) ==
    IF accepts(cost, best.cost) THEN [x |-> cand, cost |-> cost] ELSE best

\* the final decision of runWithWarmStart
finalDecision(best) ==
    [produced |-> TRUE, grid_ratio |-> best.x[1],
     optimal_current |-> RoundToTenth(best.x[2]), cost |-> best.cost]

NoDecision == [produced |-> FALSE, grid_ratio |-> 0, optimal_current |-> 0, cost |-> 0]

NoBest == [x |-> <<0, 0>>, cost |-> 0]

\* runWithWarmStart's loop without a surrogate model, from iteration iter on:
\* every await resolves without leaving the job, draws[k] is the draw of
\* iteration k
RECURSIVE climbToEnd(_, _, _, _)
climbToEnd(best, state, iter, draws) ==
    IF iter >= RefineIterations THEN best
    ELSE LET cand == candidate(best, draws[iter + 1])
         IN climbToEnd(climb(best, cand, evalCostPhysics(cand, state)),
                       state, iter + 1, draws)

Message(topic, request, kind) == [topic |-> topic, request |-> request, kind |-> kind]

\* the two publishes that end runWithWarmStart for request r
publishRefined(pub, r) ==
    pub \o << Message("power/mpc/decision", r, "refined"),
              Message("web/mpc/status", r, "status") >>

\* loadModels(): both models loaded, then handed to HenMPC and MPC
LoadModels ==
    /\ ~warmModel
    /\ warmModel' = TRUE
    /\ surrogateModel' = TRUE
    /\ UNCHANGED <<requests, published, henmpcVars, compareVars, applied, otherVars>>

NewRequest(kind, state) ==
    [kind |-> kind, state |-> state, pc |-> "start", resolved |-> FALSE,
     warm |-> <<0, 0>>, best |-> NoBest, initialCost |-> 0, iter |-> 0,
     refined |-> NoDecision]

\* a warm start that leaves the electrolyser without current
fallbackNoCurrent == <<500, 0>>

\* the heuristic warm start { grid_ratio: 0.5, optimal_current: 150.0 }
fallback == <<500, 15000>>

\* HenMPC.computeAndPublishMPC(state, mqttClient), up to its first await
ComputeAndPublishMPC ==
    /\ Len(requests) < MaxRequests
    /\ \E state \in StateVectors :
         LET r == Len(requests) + 1 IN
         IF ~warmModel
         THEN /\ published' = Append(published, Message("power/mpc/decision", r, "warm"))
              /\ requests' = Append(requests,
                    [NewRequest("computeAndPublishMPC", state) EXCEPT
                        !.pc = "done", !.resolved = TRUE, !.warm = fallback])
         ELSE /\ requests' = Append(requests,
                    [NewRequest("computeAndPublishMPC", state) EXCEPT !.pc = "inferring"])
              /\ UNCHANGED published
    /\ UNCHANGED <<warmModel, surrogateModel, henmpcVars, compareVars, applied, otherVars>>

\* computeAndPublishMPC after `await raw.array()`: clamps the model's output,
\* publishes it, starts runWithWarmStart without awaiting it and returns
WarmModelReturns ==
    /\ \E r \in 1..Len(requests) :
       /\ requests[r].pc = "inferring"
       /\ \E out \in WarmModelOutputs :
          LET decision == << ClampInt(0, 1000, out[1]), ClampInt(5000, 20000, out[2]) >>
          IN /\ published' = Append(published, Message("power/mpc/decision", r, "warm"))
             /\ requests' = [requests EXCEPT ![r].warm = decision,
                                             ![r].pc = "init",
                                             ![r].resolved = TRUE]
    /\ UNCHANGED <<warmModel, surrogateModel, henmpcVars, compareVars, applied, otherVars>>

\* HenMPC.scheduleAndRun(state, mqttClient), up to the first await that
\* leaves the job: with no surrogate model there is none, and the call runs
\* runWithWarmStart to its end
ScheduleAndRun ==
    /\ Len(requests) < MaxRequests
    /\ \E state \in StateVectors :
         LET r == Len(requests) + 1
             warm == WarmNetPredict(state)
             warmDecision == <<warm[1].val, RoundToTenth(warm[2].val)>>
             start == [NewRequest("scheduleAndRun", state) EXCEPT !.warm = warmDecision]
             pub == Append(published, Message("power/mpc/decision", r, "warm"))
         IN IF surrogateModel
            THEN /\ requests' = Append(requests, [start EXCEPT !.pc = "init"])
                 /\ published' = pub
            ELSE \E draws \in [1..RefineIterations -> PerturbDraws] :
                 \E cost0 \in {evalCostPhysics(warmDecision, state)} :
                 \E best \in {climbToEnd([x |-> warmDecision, cost |-> cost0],
                                         state, 0, draws)} :
                    /\ requests' = Append(requests,
                          [start EXCEPT !.pc = "done", !.resolved = TRUE,
                                        !.best = best, !.initialCost = cost0,
                                        !.iter = RefineIterations,
                                        !.refined = finalDecision(best)])
                    /\ published' = publishRefined(pub, r)
    /\ UNCHANGED <<warmModel, surrogateModel, henmpcVars, compareVars, applied, otherVars>>

\* the end of runWithWarmStart for request r: the publishes and the return,
\* which also resolves a scheduleAndRun call awaiting it
finish(req, best) ==
    [req EXCEPT !.pc = "done", !.resolved = TRUE, !.refined = finalDecision(best)]

\* runWithWarmStart of request r resumes after an `await evalCost(...)` on the
\* surrogate model: the cost of x0 first, then the cost of each candidate
CostReturns ==
    /\ \E r \in 1..Len(requests) :
       \E y \in SurrogateOutputs :
       \E draw \in PerturbDraws :
          LET req == requests[r] IN
          /\ req.pc \in {"init", "iter"}
          /\ IF req.pc = "init"
             THEN \E cost0 \in {evalCostSurrogate(req.warm, req.state, y)} :
                  LET best == [x |-> req.warm, cost |-> cost0]
                      started == [req EXCEPT !.best = best, !.initialCost = cost0,
                                             !.pc = "iter"]
                  IN IF RefineIterations = 0
                     THEN /\ requests' = [requests EXCEPT ![r] = finish(started, best)]
                          /\ published' = publishRefined(published, r)
                     ELSE /\ requests' = [requests EXCEPT ![r] = started]
                          /\ UNCHANGED published
             ELSE \E cand \in {candidate(req.best, draw)} :
                  \E best \in {climb(req.best, cand, evalCostSurrogate(cand, req.state, y))} :
                  LET stepped == [req EXCEPT !.best = best, !.iter = req.iter + 1]
                  IN IF req.iter + 1 >= RefineIterations
                     THEN /\ requests' = [requests EXCEPT ![r] = finish(stepped, best)]
                          /\ published' = publishRefined(published, r)
                     ELSE /\ requests' = [requests EXCEPT ![r] = stepped]
                          /\ UNCHANGED published
    /\ UNCHANGED <<warmModel, surrogateModel, henmpcVars, compareVars, applied, otherVars>>

InitHENMPC ==
    /\ populationSize = InitialPopulationSize
    /\ generation = 0
    /\ population \in [1..InitialPopulationSize -> InitialSolutions]
    /\ bestSolution = Null
    /\ performanceHistory = <<>>
    /\ weights = InitialWeights
    /\ cache = NoData
    /\ henmpcCall = NoCall

InitCompare ==
    /\ performanceMetrics = <<>>
    /\ compareCall = [op |-> "none", faulty |-> {}, outcome |-> "none",
                      error |-> "none", results |-> <<>>]

InitWeb ==
    /\ warmModel = FALSE
    /\ surrogateModel = FALSE
    /\ requests = <<>>
    /\ published = <<>>

InitApplied == applied = NoApplication

\* the objects of a constructed optimizer: one per candidate, none for
\* bestSolution = null
\* the constructor of MPCController
InitVariant ==
    /\ currentVariant = "henmpc"
    /\ variantCall = [op |-> "none", name |-> "none", outcome |-> "none"]

InitObjects ==
    /\ populationId = [i \in 1..InitialPopulationSize |-> i]
    /\ bestSolutionId = 0
    /\ nextId = InitialPopulationSize + 1
    /\ phase = "idle"

\* the constructor of PEMApplication, before the broker has answered
InitApp ==
    /\ systemState = InitialSystemState
    /\ isConnected = FALSE
    /\ inbound = <<>>
    /\ outbound = <<>>
    /\ arrived = 0

Init ==
    /\ InitHENMPC /\ InitCompare /\ InitWeb /\ InitApplied /\ InitObjects
    /\ InitVariant /\ InitApp

\* the evolutionary optimizer alone
Next == GenerateControlDecision \/ UpdateMPCParams \/ SelectMPCStrategy

Spec == Init /\ [][Next]_vars

\* a long run of the optimizer
NextLongRun == LongRunControlDecision

SpecLongRun == Init /\ [][NextLongRun]_vars

\* the optimizer and the strategy comparator
NextCompare == GenerateControlDecision \/ CompareVariants

SpecCompare == Init /\ [][NextCompare]_vars

\* one optimizer, its optimize calls taken statement by statement
NextObjects ==
    \/ OptimizeEvaluate
    \/ OptimizeSelection
    \/ OptimizeCrossover
    \/ OptimizeMutation
    \/ OptimizeUpdateBestSolution

SpecObjects == Init /\ [][NextObjects]_vars

\* the comparator's variant selection
NextVariant ==
    \/ SelectVariant
    \/ ResetVariants
    \/ ComputeControlDecision
    \/ HenmpcControlDecision

SpecVariant == Init /\ [][NextVariant]_vars

\* the dashboard's MQTT session
NextApp ==
    \/ MqttConnect
    \/ BrokerDelivers
    \/ HandleMQTTMessage
    \/ BrokerRoutes

SpecApp == Init /\ [][NextApp]_vars

\* the broker routes every message it receives and the 'message' callback
\* runs for every message the broker hands over
SpecAppFair == SpecApp /\ WF_vars(HandleMQTTMessage) /\ WF_vars(BrokerRoutes)

\* the warm start and the local refinement
NextWeb ==
    \/ LoadModels
    \/ ComputeAndPublishMPC
    \/ WarmModelReturns
    \/ ScheduleAndRun
    \/ CostReturns

\* the page that serves the warm start holds no optimizer of its own: the
\* optimizer's variables keep one constructed value
InitWebPage ==
    /\ InitWeb
    /\ InitCompare
    /\ InitApplied
    /\ InitObjects
    /\ InitVariant
    /\ InitApp
    /\ populationSize = InitialPopulationSize
    /\ generation = 0
    /\ population = [i \in 1..InitialPopulationSize |->
                        NewSolution(Num(300), Num(200), Num(900))]
    /\ bestSolution = Null
    /\ performanceHistory = <<>>
    /\ weights = InitialWeights
    /\ cache = NoData
    /\ henmpcCall = NoCall

SpecWeb == InitWebPage /\ [][NextWeb]_vars

\* the page with its promises settling: a model inference that was started
\* returns, and so does a cost evaluation on the surrogate model
SpecWebFair ==
    /\ SpecWeb
    /\ WF_vars(WarmModelReturns)
    /\ WF_vars(CostReturns)

\* functions of the program applied to given arguments, from one constructed
\* state
NextFunctions ==
    \/ ApplyRecordComparison
    \/ ApplyWarmNetPredict
    \/ ApplyEvaluatePair
    \/ ApplyEvaluateMalformed
    \/ ApplyTrackingPerformance
    \/ ApplyCalculateConfidence
    \/ ApplyGetCurrentDataTwice
    \/ ApplyRunMPCOptimization

SpecFunctions == InitWebPage /\ [][NextFunctions]_vars

(***************************************************************************)
(* Properties.                                                             *)
(***************************************************************************)
InRange(x, lo, hi) == IsNum(x) /\ lo <= x.val /\ x.val <= hi

\* C1: every generateControlDecision call, the first one on a fresh instance
\* included, returns a Decision record and does not throw.
C1_AlwaysReturnsDecision ==
    henmpcCall.op = "generateControlDecision" =>
        /\ henmpcCall.outcome = "returned"
        /\ henmpcCall.decision # Null

\* C2: elitism: under one scenario, a generation step leaves
\* bestSolution.fitness greater than or equal to what it was after the
\* previous generation step.
C2_ElitismMonotone ==
    [][(generation' = generation + 1 /\ bestSolution # Null /\ cache' = cache) =>
          Geq(bestSolution'.fitness, bestSolution.fitness)]_vars

\* C3: in every reachable state every candidate of the population has
\* pvRatio = 1 - gridRatio exactly.
C3_PvRatioIsComplement ==
    \A i \in DOMAIN population :
        /\ IsNum(population[i].gridRatio)
        /\ IsNum(population[i].pvRatio)
        /\ population[i].pvRatio.val = 1000 - population[i].gridRatio.val

\* C4: after the crossover and mutation of a generation step every
\* candidate, the elite slot included, has gridRatio in [0,1] and
\* currentSetpoint in [50,150].
C4_CandidatesWithinBounds ==
    generation >= 1 =>
        \A i \in DOMAIN population :
            /\ InRange(population[i].gridRatio, 0, 1000)
            /\ InRange(population[i].currentSetpoint, 50000, 150000)

\* C5: when variants throw while being evaluated, every other registered
\* variant is in the ranking compareVariants produced.
C5_FailureIsolation ==
    compareCall.op = "compareVariants" =>
        \A v \in VariantNames \ compareCall.faulty :
            \E k \in DOMAIN compareCall.results : compareCall.results[k] = v

\* C6: whichever variants fail, all of them included, compareVariants
\* resolves and does not throw or reject.
C6_CompareNeverRejects ==
    compareCall.op = "compareVariants" => compareCall.outcome = "resolved"

\* C7: local refinement is a strict descent: an iteration replaces the best
\* only by a candidate of strictly lower cost, the best cost never increases
\* from one iteration to the next, and the cost of the returned decision is
\* less than or equal to the cost of the warm-start guess.
C7_StrictDescent ==
    [][\A r \in DOMAIN requests' :
          /\ requests'[r].refined.produced =>
                /\ requests'[r].refined.cost <= requests'[r].initialCost
                /\ requests'[r].refined.cost = requests'[r].best.cost
          /\ (r \in DOMAIN requests /\ requests[r].pc = "iter") =>
                /\ requests'[r].best.cost <= requests[r].best.cost
                /\ requests'[r].best # requests[r].best =>
                      requests'[r].best.cost < requests[r].best.cost]_vars

\* C7 case: a finished pass on the surrogate model in which a candidate
\* replaced the warm-start guess.
C7_Witness ==
    \E r \in DOMAIN requests :
        /\ requests[r].kind = "computeAndPublishMPC"
        /\ requests[r].refined.produced
        /\ requests[r].iter = RefineIterations
        /\ requests[r].refined.cost < requests[r].initialCost

\* C8: each generateControlDecision call raises the generation counter by
\* exactly 1 and appends exactly one Performance Record, so that the record
\* at position i of the history carries generation index i.
C8_OneGenerationStepPerCall ==
    [][henmpcCall' # henmpcCall \/ generation' # generation
         \/ performanceHistory' # performanceHistory =>
          /\ generation' = generation + 1
          /\ Len(performanceHistory') = Len(performanceHistory) + 1
          /\ SubSeq(performanceHistory', 1, Len(performanceHistory)) = performanceHistory
          /\ \A i \in DOMAIN performanceHistory' :
                performanceHistory'[i].generation = i
          /\ Len(performanceHistory') = generation']_vars

\* C8 case: two calls have been made on the instance.
C8_Witness ==
    /\ henmpcCall.op = "generateControlDecision"
    /\ generation = 2
    /\ Len(performanceHistory) = 2

\* C9: two refinement passes of the MPC module are never in progress at the
\* same time.
C9_OnePassAtATime ==
    Cardinality({r \in DOMAIN requests : requests[r].pc \in {"init", "iter"}}) <= 1

\* C10: when a request's call has returned or resolved, nothing of that
\* request is still running: its refined decision, if it gets one, has been
\* produced already.
C10_RefinedBeforeReturn ==
    \A r \in DOMAIN requests :
        requests[r].resolved => requests[r].pc = "done"

\* C11: after any number of optimize calls performanceHistory holds at most
\* 100 entries.
C11_HistoryBounded ==
    Len(performanceHistory) <= 100

\* the last k entries of a sequence
LastEntries(q, k) == SubSeq(q, Len(q) - k + 1, Len(q))

MinInt(a, b) == IF a < b THEN a ELSE b

\* C12: after a completed comparison performanceMetrics holds at most 100
\* entries, they are the most recent runs in run order, and the run has
\* evicted at most the single oldest entry.
C12_MetricsBounded ==
    (applied.fn = "recordComparison" /\ ~applied.out.threw) =>
        LET before == applied.metrics
            after == applied.out.metrics
            all == Append(before, after[Len(after)])
        IN /\ Len(after) <= 100
           /\ after[Len(after)].results = applied.out.ranking
           /\ after = LastEntries(all, MinInt(100, Len(all)))
           /\ Len(all) - Len(after) <= 1

\* C12 case: a comparison recorded on top of 100 held entries, the oldest of
\* which has gone.
C12_Witness ==
    /\ applied.fn = "recordComparison"
    /\ ~applied.out.threw
    /\ Len(applied.metrics) = 100
    /\ Len(applied.out.metrics) = 100
    /\ applied.out.metrics[1] = applied.metrics[2]

\* position of a variant in the enumeration order
VariantIndex(v) == CHOOSE i \in 1..Len(Variants) : Variants[i] = v

\* C13: the ranking is the results sorted by overallScore in descending
\* order, variants of equal score in enumeration order, and the recorded
\* bestVariant is the first element of the ranking.
C13_RankingSorted ==
    (applied.fn = "recordComparison" /\ ~applied.out.threw) =>
        LET ranking == applied.out.ranking
            recorded == applied.out.metrics[Len(applied.out.metrics)]
        IN /\ Len(ranking) = Len(applied.results)
           /\ \A k \in DOMAIN applied.results :
                 \E j \in DOMAIN ranking : ranking[j] = applied.results[k]
           /\ \A j \in 1..(Len(ranking) - 1) :
                 \/ Gt(ranking[j].overallScore, ranking[j + 1].overallScore)
                 \/ /\ ranking[j].overallScore = ranking[j + 1].overallScore
                    /\ VariantIndex(ranking[j].variant)
                         < VariantIndex(ranking[j + 1].variant)
           /\ recorded.bestVariant = ranking[1].variant

\* C13 case: a ranking of all five variants in which the sort moved a later
\* variant in front of an earlier one and kept two variants of equal score
\* in enumeration order.
C13_Witness ==
    /\ applied.fn = "recordComparison"
    /\ ~applied.out.threw
    /\ Len(applied.out.ranking) = 5
    /\ applied.out.ranking # applied.results
    /\ \E j \in 1..4 :
          applied.out.ranking[j].overallScore = applied.out.ranking[j + 1].overallScore

\* C14: for every input state vector WarmNet.predict returns a grid-ratio
\* guess in [0, 1] and a current guess in [50, 200] A.
C14_WarmStartClamped ==
    applied.fn = "WarmNet.predict" =>
        /\ InRange(applied.out[1], 0, 1000)
        /\ InRange(applied.out[2], 5000, 20000)

C16_StepUsesSelectedWeights ==
    [][(/\ generation' = generation + 1
        /\ \E strategy \in Strategies : weights = strategyWeights(strategy))
       => weights' = weights]_vars

\* C17: of two candidates that differ in gridRatio only, 1.5 against 1.0, the
\* one with gridRatio 1.5 gets the strictly lower fitness after the penalty.
C17_PenaltyStrictlyMonotone ==
    applied.fn = "evaluateSolution" =>
        Lt(applied.invalid.fitness, applied.valid.fitness)

\* C18: a candidate evaluated under a snapshot with a negative demand or a
\* tariff that is not finite has the malformed entry counted as a constraint
\* violation.
C18_MalformedInputCounted ==
    applied.fn = "evaluateSolution.malformed" =>
        Geq(applied.out.constraintsViolated, Whole(1))

\* C19: for a demand of 100, a reference of 100 and a variant result with
\* control = 100 and cost = 0, calculateTrackingPerformance is 1 to within
\* a hundredth.
C19_PerfectTracking ==
    (/\ applied.fn = "calculateTrackingPerformance"
     /\ applied.controlResult.control = Whole(100))
    => Geq(applied.out, Num(990))

\* C20: for any history and any number of violations the confidence is in
\* [0.3, 0.95], and it is the confidence of the same solution without
\* violations lowered by 0.1 per violation, clamped to that interval.
C20_ConfidenceClamped ==
    applied.fn = "calculateConfidence" =>
        /\ InRange(applied.out, 300, 950)
        /\ IsNum(applied.solution.constraintsViolated) =>
              applied.out.val =
                 ClampInt(300, 950,
                          applied.clean.val
                          - applied.solution.constraintsViolated.val \div 10)

\* a confidence that five violations would have taken below 0.3, and one
\* raised to 0.9 by a history of more than five records and lowered by one
\* violation
C20_Witness ==
    /\ applied.fn = "calculateConfidence"
    /\ \/ /\ applied.solution.constraintsViolated = Whole(5)
          /\ applied.clean = Num(700)
          /\ applied.out = Num(300)
       \/ /\ applied.solution.constraintsViolated = Whole(1)
          /\ applied.clean = Num(900)
          /\ applied.out = Num(800)

\* C21: the population holds exactly populationSize candidates in the
\* constructed state and after every generation step, a step that follows a
\* change of populationSize by updateMPCParams included.
C21_PopulationSizeFixed ==
    /\ Len(population) = populationSize
    /\ [][generation' = generation + 1 =>
             Len(population') = populationSize']_vars

\* C22: bestSolution is changed by updateBestSolution only, is an object of
\* its own that no slot of the population holds, and keeps its fields while
\* evaluateFitness, selection, crossover and mutation run.
C22_BestSolutionByValue ==
    /\ [](\A i \in DOMAIN populationId : populationId[i] # bestSolutionId)
    /\ [][bestSolution' # bestSolution => phase = "updateBestSolution"]_vars

\* a second generation has evaluated, crossed and mutated the population while
\* a best solution was held
C22_Witness ==
    /\ generation = 2
    /\ phase = "updateBestSolution"
    /\ bestSolution # Null
    /\ \E i \in DOMAIN population : population[i] # bestSolution

\* x === y on numbers and undefined
StrictEquals(x, y) == x.tag # "nan" /\ x = y

\* C23: when a generation step has run selection, crossover and mutation, the
\* population holds a candidate with the currentSetpoint and the gridRatio of
\* the best solution held before the step.
C23_EliteCarriedForward ==
    [][(/\ generation' = generation + 1
        /\ bestSolution # Null
        /\ Len(performanceHistory') = Len(performanceHistory) + 1)
       => \E i \in DOMAIN population' :
             /\ StrictEquals(population'[i].currentSetpoint, bestSolution.currentSetpoint)
             /\ StrictEquals(population'[i].gridRatio, bestSolution.gridRatio)]_vars

\* C24: when a generation step ends, the fitness and constraintsViolated of
\* bestSolution are what evaluateFitness gives for that solution's own
\* currentSetpoint, gridRatio and pvRatio under the step's weights and
\* scenario.
C24_FitnessConsistent ==
    [][(/\ generation' = generation + 1
        /\ Len(performanceHistory') = Len(performanceHistory) + 1)
       => LET fresh == evaluateSolution(bestSolution', weights', bestSolution, cache')
          IN /\ bestSolution'.fitness = fresh.fitness
             /\ bestSolution'.constraintsViolated = fresh.constraintsViolated]_vars

WarmStartPublished(r) ==
    IF r <= Len(requests)
    THEN requests[r].kind = "computeAndPublishMPC" /\ requests[r].resolved
    ELSE FALSE

\* the refined decision of request r has been produced and published
RefinedPublished(r) ==
    IF r <= Len(requests)
    THEN /\ requests[r].refined.produced
         /\ \E k \in DOMAIN published :
               published[k] = Message("power/mpc/decision", r, "refined")
    ELSE FALSE

\* C26: whenever computeAndPublishMPC has published a warm-start decision for
\* a request, on the trained-model path or on the fallback path, a refined
\* decision of that request is eventually produced and published.
C26_EveryRequestRefined ==
    \A r \in 1..MaxRequests : WarmStartPublished(r) ~> RefinedPublished(r)

\* C27: currentVariant always names a registered variant, and
\* getControlDecision never returns null for want of a selected variant.
C27_CurrentVariantRegistered ==
    /\ currentVariant \in VariantNames
    /\ ~(variantCall.op = "getControlDecision" /\ variantCall.outcome = "null")

\* runMPCOptimization changed the system state or published something
DecisionApplied ==
    \/ applied.out.systemState # InitialSystemState
    \/ applied.out.published # <<>>

\* C28: runMPCOptimization changes systemState and publishes only for a
\* decision whose confidence is above 0.7; so it applies nothing after any
\* of the first five generation steps, and nothing whose best solution has
\* two or more constraint violations.
C28_AppliedOnlyWhenConfident ==
    applied.fn = "runMPCOptimization" =>
        /\ DecisionApplied => Gt(applied.decision.confidence, Num(700))
        /\ applied.decision.generation <= 5 => ~DecisionApplied
        /\ Geq(applied.solution.constraintsViolated, Whole(2)) => ~DecisionApplied
        /\ ~applied.isConnected => applied.out.published = <<>>

\* a decision of the sixth step with one violation has been applied and
\* published
C28_Witness ==
    /\ applied.fn = "runMPCOptimization"
    /\ applied.decision.generation = 6
    /\ applied.solution.constraintsViolated = Whole(1)
    /\ applied.out.systemState.current = Whole(100)
    /\ applied.out.published = <<"web/mpc/decision", "power/mpc/decision">>

\* the places in published of the messages of request r of a kind
Places(r, kind) ==
    { k \in DOMAIN published :
        published[k].request = r /\ published[k].kind = kind }

\* the place of the last decision published on 'power/mpc/decision', 0 if none
LastDecision ==
    LET ks == { k \in DOMAIN published : published[k].topic = "power/mpc/decision" }
    IN IF ks = {} THEN 0 ELSE CHOOSE k \in ks : \A j \in ks : j <= k

\* C29: the warm-start decision of a request is published before its refined
\* decision and the OPTIMIZED status after it; when the requests issued have
\* all finished, the last decision on 'power/mpc/decision' is one of the most
\* recent request.
C29_PublicationOrder ==
    /\ \A r \in DOMAIN requests :
          /\ \A k \in Places(r, "refined") : \E j \in Places(r, "warm") : j < k
          /\ \A k \in Places(r, "status") : \E j \in Places(r, "refined") : j < k
    /\ (requests # <<>> /\ \A r \in DOMAIN requests : requests[r].pc = "done")
          => published[LastDecision].request = Len(requests)


====
